---- MODULE Spec2Model ----
(***************************************************************************)
(* Model of modules/toga_sanity_checks.py (class TogaSanityChecker): the   *)
(* four file checks check_2bit_file_completeness, check_and_write_u12_file,*)
(* check_isoforms_file and check_chains_classified.                        *)
(*                                                                         *)
(* Text is a sequence of code points (TAB = 9, LF = 10, ...), so that the  *)
(* string operations of the code (rstrip, split, isnumeric, text-mode      *)
(* reading, f-string formatting) are computed and not assumed.             *)
(***************************************************************************)
EXTENDS Integers, Sequences, FiniteSets, TLC

\* ------------------------------------------------------------------ bounds
\* Most lines of a U12 file.
MaxLines == 2
\* Largest chromosome size map of the numbered family (names 1..n).
MaxChrom == 101
\* Largest transcript identifier set of the numbered family.
MaxTrans == 101
\* Most lines of a chain classification result file.
MaxChainLines == 3

\* ------------------------------------------------------- program constants
TAB == 9
LF == 10
CR == 13
U12_FILE_COLS == 3
\* "A" and "D"
U12_AD_FIELD == {<<65>>, <<68>>}
\* list(chroms_not_in_2bit)[:100]
CHROMS_TOP_101 == 100 + 1
CHROMS_TOP == 100
\* list(u_in_b)[:100]
TRANSCRIPTS_TOP == 100
\* enumerate(f, 1)
ENUMERATE_START_0 == 1 - 1
ENUMERATE_START == 1
\* islice(f, 2)
ISLICE_STOP == 2
\* the value of a size-map entry whose length is unknown (Python's None);
\* real lengths are >= 0
None == -1
\* a call that returns None, and the absent argument
NoValue == <<>>
ArgNone == "None"

\* ------------------------------------------------------------ Python text
\* str.isspace of one character (code points below 256)
IsSpace(c) == c \in {9, 10, 11, 12, 13, 28, 29, 30, 31, 32, 133, 160}

\* str.isnumeric of one character (code points below 256: 0-9 and the
\* Latin-1 superscripts and fractions)
IsNumericChar(c) == c \in (48..57) \cup {178, 179, 185, 188, 189, 190}

\* str.isnumeric: every character numeric and at least one character
isnumeric(s) == Len(s) > 0 /\ \A i \in 1..Len(s) : IsNumericChar(s[i])

RECURSIVE rstrip(_)
\* str.rstrip(): trailing whitespace removed
rstrip(s) ==
    IF s = <<>> THEN <<>>
    ELSE IF IsSpace(s[Len(s)]) THEN rstrip(SubSeq(s, 1, Len(s) - 1))
    ELSE s

\* index of the first occurrence of c in s, 0 when there is none
Find(s, c) ==
    IF \E i \in 1..Len(s) : s[i] = c
    THEN CHOOSE i \in 1..Len(s) : s[i] = c /\ \A j \in 1..(i - 1) : s[j] # c
    ELSE 0

RECURSIVE split(_, _)
\* str.split(sep) with a one-character separator: always at least one field
split(s, sep) ==
    LET i == Find(s, sep)
    IN  IF i = 0 THEN <<s>>
        ELSE <<SubSeq(s, 1, i - 1)>> \o split(SubSeq(s, i + 1, Len(s)), sep)

RECURSIVE universal_newlines(_)
\* open(path, "r"): text mode with newline=None translates "\r\n" and "\r"
\* to "\n" on reading
universal_newlines(s) ==
    IF s = <<>> THEN <<>>
    ELSE IF s[1] = CR
         THEN <<LF>> \o universal_newlines(
                  IF Len(s) >= 2 /\ s[2] = LF THEN SubSeq(s, 3, Len(s)) ELSE Tail(s))
         ELSE <<s[1]>> \o universal_newlines(Tail(s))

RECURSIVE splitlines(_)
\* iteration over a text file: the lines, each with its "\n" (the last line
\* may have none)
splitlines(s) ==
    LET i == Find(s, LF)
    IN  IF s = <<>> THEN <<>>
        ELSE IF i = 0 THEN <<s>>
        ELSE <<SubSeq(s, 1, i)>> \o splitlines(SubSeq(s, i + 1, Len(s)))

\* the lines `for num, line in enumerate(f, 1)` yields for a file of raw
\* content s
TextLines(s) == splitlines(universal_newlines(s))

RECURSIVE Concat(_)
\* "".join(lines)
Concat(ss) == IF ss = <<>> THEN <<>> ELSE Head(ss) \o Concat(Tail(ss))

\* a set's first n elements in iteration order, list(S)[:n]: the order of a
\* Python set is not specified, so any n of them (all when there are fewer)
RECURSIVE SubsetsOfSize(_, _)
SubsetsOfSize(S, k) ==
    IF k = 0 THEN {{}}
    ELSE UNION {{D \cup {x} : D \in SubsetsOfSize(S \ {x}, k - 1)} : x \in S}

FirstN(S, n) ==
    IF Cardinality(S) <= n THEN {S}
    ELSE {S \ D : D \in SubsetsOfSize(S, Cardinality(S) - n)}

\* ----------------------------------------------------------------- errors
NoErr == [text |-> "", line |-> 0, value |-> <<>>, items |-> {}]

\* raise ValueError(err_msg): the message's template and what it cites
ValueError(text, line, value, items) ==
    [text |-> text, line |-> line, value |-> value, items |-> items]

\* ------------------------------------------------------------------ state
VARIABLES
    op,               \* the operation called
    pc,               \* position of the running operation
    open_handles,     \* paths of the file objects that are open
    result,           \* how the operation ended: returned value or raised error
    fs,               \* the files written: path -> content
    temp_wd,          \* argument temp_wd
    t_in_bed,         \* argument t_in_bed, the transcript identifier set
    u12_arg,          \* argument u12_arg
    u12_file,         \* raw content of the file at u12_arg
    num,              \* check_and_write_u12_file: lines read so far
    filt_lines,       \* check_and_write_u12_file: the lines kept
    isoforms_arg,     \* argument isoforms_arg
    isoform_to_gene,  \* read_isoforms_file(...)[1]
    header,           \* read_isoforms_file(...)[2]
    todo,             \* check_isoforms_file: transcripts of t_in_both not written yet
    two_bit,          \* the 2bit file: whether readable, and its sequence sizes
    chroms_sizes,     \* argument chroms_sizes
    chain_lines       \* number of lines of the file at chain_results_df

vars == <<op, pc, open_handles, result, fs, temp_wd, t_in_bed, u12_arg, u12_file, num,
          filt_lines, isoforms_arg, isoform_to_gene, header, todo, two_bit,
          chroms_sizes, chain_lines>>

u12_vars == <<u12_arg, u12_file, num, filt_lines>>
iso_vars == <<isoforms_arg, isoform_to_gene, header, todo>>
twobit_vars == <<two_bit, chroms_sizes>>

NoResult == [status |-> "none", value |-> NoValue, err |-> NoErr]
Returned(v) == [status |-> "returned", value |-> v, err |-> NoErr]
Raised(e) == [status |-> "raised", value |-> NoValue, err |-> e]

\* os.path.join(temp_wd, name)
PathJoin(wd, name) == <<wd, name>>

\* a file opened with mode "w" and written: created or replaced
WriteFile(files, path, content) ==
    [p \in DOMAIN files \cup {path} |-> IF p = path THEN content ELSE files[p]]

Init ==
    /\ op = "none"
    /\ pc = "idle"
    /\ open_handles = {}
    /\ result = NoResult
    /\ fs = <<>>
    /\ temp_wd = ""
    /\ t_in_bed = {}
    /\ u12_arg = ArgNone
    /\ u12_file = <<>>
    /\ num = 0
    /\ filt_lines = <<>>
    /\ isoforms_arg = ArgNone
    /\ isoform_to_gene = <<>>
    /\ header = <<>>
    /\ todo = {}
    /\ two_bit = [readable |-> TRUE, sizes |-> <<>>]
    /\ chroms_sizes = <<>>
    /\ chain_lines = 0

\* ------------------------------------------------ inputs the model draws
WorkDirs == {"wd1", "wd2"}

\* lines of a U12 file ("a" = 97, "b" = 98, "7" = 55, "x" = 120, "A" = 65,
\* "D" = 68), without their terminator
U12Bodies ==
    { <<97, TAB, 55, TAB, 65>>,            \* a 7 A
      <<98, TAB, 55, TAB, 68>>,            \* b 7 D
      <<97, TAB, 55>>,                     \* two fields
      <<98, TAB, 55, TAB, 68, TAB, 120>>,  \* four fields
      <<97, TAB, 120, TAB, 65>>,           \* field 2 "x"
      <<98, TAB, 55, 120, TAB, 65>>,       \* field 2 "7x"
      <<97, TAB, TAB, 65>>,                \* field 2 empty
      <<97, TAB, 55, TAB, 120>>,           \* field 3 "x"
      <<98, TAB, 55, TAB, 65, 68>>,        \* field 3 "AD"
      <<97, TAB, 55, TAB, 68, TAB>>,       \* a 7 D and a trailing tab
      <<97, TAB, 55, TAB, 65, 32>>,        \* a 7 A and a trailing space
      <<>> }                               \* empty line

\* lines ending in "\n", lines ending in "\r\n", and last lines without
\* a terminator
U12Terminated ==
    {b \o <<LF>> : b \in U12Bodies}
    \cup {<<97, TAB, 55, TAB, 65, CR, LF>>, <<98, TAB, 120, TAB, 68, CR, LF>>}
U12Unterminated == {<<98, TAB, 55, TAB, 68>>, <<97, TAB, 55, TAB, 120>>}

\* the U12 files: at most MaxLines lines, only the last may lack a terminator
U12Files ==
    UNION { { ls \in [1..n -> U12Terminated \cup U12Unterminated] :
                \A i \in 1..(n - 1) : ls[i] \in U12Terminated }
            : n \in 0..MaxLines }

U12TranscriptSets == SUBSET {<<97>>, <<98>>}

\* ------------------------------------------------ check_and_write_u12_file
\* one iteration of the loop over the lines: the line is kept, skipped, or
\* a ValueError is raised
U12Line(line, n, tset) ==
    LET line_data == split(rstrip(line), TAB)
        trans_id == line_data[1]
        exon_num == line_data[2]
        acc_don == line_data[3]
    IN  IF Len(line_data) # U12_FILE_COLS
        THEN [kind |-> "raise",
              err |-> ValueError("U12 line corrupted, 3 fields expected", n,
                                 <<Len(line_data)>>, {})]
        ELSE IF trans_id \notin tset
        THEN [kind |-> "skip", err |-> NoErr]
        ELSE IF ~isnumeric(exon_num)
        THEN [kind |-> "raise",
              err |-> ValueError("U12 line corrupted, field 2 must be numeric", n,
                                 exon_num, {})]
        ELSE IF acc_don \notin U12_AD_FIELD
        THEN [kind |-> "raise",
              err |-> ValueError("U12 line corrupted, field 3 must be A or D", n,
                                 acc_don, {})]
        ELSE [kind |-> "keep", err |-> NoErr]

\* lines 108-115: the call; None returns None, a path is opened for reading
U12Call ==
    /\ pc = "idle"
    /\ \E arg \in {ArgNone, "u12.txt"}, ls \in U12Files,
          tset \in U12TranscriptSets, wd \in WorkDirs :
        /\ arg = ArgNone => (ls = <<>> /\ tset = {} /\ wd = "wd1")
        /\ u12_arg' = arg
        /\ u12_file' = Concat(ls)
        /\ t_in_bed' = tset
        /\ temp_wd' = wd
        /\ IF arg = ArgNone
           THEN /\ pc' = "done"
                /\ result' = Returned(NoValue)
                /\ open_handles' = open_handles
           ELSE /\ pc' = "u12_loop"
                /\ result' = result
                /\ open_handles' = open_handles \cup {<<arg>>}
    /\ op' = "check_and_write_u12_file"
    /\ num' = 0
    /\ filt_lines' = <<>>
    /\ UNCHANGED <<fs, iso_vars, twobit_vars, chain_lines>>

\* lines 116-143: one line of the file
U12Loop ==
    /\ pc = "u12_loop"
    /\ num < Len(TextLines(u12_file))
    /\ LET line == TextLines(u12_file)[num + 1]
           step == U12Line(line, num + ENUMERATE_START, t_in_bed)
       IN  /\ num' = num + 1
           /\ filt_lines' = IF step.kind = "keep" THEN Append(filt_lines, line)
                            ELSE filt_lines
           /\ IF step.kind = "raise"
              THEN pc' = "done" /\ result' = Raised(step.err)
              ELSE pc' = "u12_loop" /\ result' = result
    /\ UNCHANGED <<op, open_handles, fs, temp_wd, t_in_bed, u12_arg, u12_file,
                   iso_vars, twobit_vars, chain_lines>>

\* line 144: f.close() after the last line
U12Close ==
    /\ pc = "u12_loop"
    /\ num = Len(TextLines(u12_file))
    /\ open_handles' = open_handles \ {<<u12_arg>>}
    /\ pc' = "u12_filter"
    /\ UNCHANGED <<op, result, fs, temp_wd, t_in_bed, u12_vars, iso_vars, twobit_vars,
                   chain_lines>>

\* "\n".join(lines)
RECURSIVE JoinNewline(_)
JoinNewline(ss) ==
    IF ss = <<>> THEN <<>>
    ELSE IF Len(ss) = 1 THEN Head(ss)
    ELSE Head(ss) \o <<LF>> \o JoinNewline(Tail(ss))

U12Output_JoinNewline(lines) == JoinNewline(lines)
\* what f.write("".join(filt_lines)) puts into the file
U12Output(lines) == Concat(lines)

no_lines_left_Never(lines) == FALSE
\* len(filt_lines) == 0
no_lines_left(lines) == Len(lines) = 0

\* lines 146-153: no line left raises; otherwise the kept lines are written
\* inside `with open(u12_saved_file, "w") as f`
U12Write ==
    /\ pc = "u12_filter"
    /\ IF no_lines_left(filt_lines)
       THEN /\ pc' = "done"
            /\ result' = Raised(ValueError("No lines left in the U12 file after filter",
                                           0, <<>>, {}))
            /\ UNCHANGED <<open_handles, fs>>
       ELSE /\ pc' = "u12_with"
            /\ open_handles' = open_handles \cup {PathJoin(temp_wd, "u12_data.txt")}
            /\ fs' = WriteFile(fs, PathJoin(temp_wd, "u12_data.txt"),
                               U12Output(filt_lines))
            /\ result' = result
    /\ UNCHANGED <<op, temp_wd, t_in_bed, u12_vars, iso_vars, twobit_vars, chain_lines>>

\* lines 152-154: the with block ends, closing the file; the path is returned
U12Return ==
    /\ pc = "u12_with"
    /\ open_handles' = open_handles \ {PathJoin(temp_wd, "u12_data.txt")}
    /\ pc' = "done"
    /\ result' = Returned(PathJoin(temp_wd, "u12_data.txt"))
    /\ UNCHANGED <<op, fs, temp_wd, t_in_bed, u12_vars, iso_vars, twobit_vars, chain_lines>>

\* ---------------------------------------------------- check_isoforms_file
\* what read_isoforms_file hands back: small mappings over the transcripts
\* "a", "b", "c" and the genes "g", "h"; the header row is the labels
\* ("G", "T"), or a data row of a transcript of the bed file ("g", "a"),
\* or a data row of some other transcript ("h", "d")
IsoTranscripts == {<<97>>, <<98>>, <<99>>}
IsoGenes == {<<103>>, <<104>>}
IsoHeaders == {<< <<71>>, <<84>> >>, << <<103>>, <<97>> >>, << <<104>>, <<100>> >>}
IsoMappings == UNION {[K -> IsoGenes] : K \in SUBSET IsoTranscripts}

\* the numbered family: transcripts 1..n (one character each, code point
\* 1000 + i), for the messages that list the first 100
Numbered(n) == {<<1000 + i>> : i \in 1..n}

\* the inputs of one call: [t_in_bed, isoform_to_gene, header, temp_wd]
IsoInputs ==
    { [t_in_bed |-> t, isoform_to_gene |-> m, header |-> h, temp_wd |-> wd] :
        t \in SUBSET IsoTranscripts, m \in IsoMappings, h \in IsoHeaders,
        wd \in WorkDirs }
    \cup
    { [t_in_bed |-> Numbered(n), isoform_to_gene |-> [k \in Numbered(j) |-> <<103>>],
       header |-> << <<71>>, <<84>> >>, temp_wd |-> "wd1"] :
        n \in (TRANSCRIPTS_TOP - 1)..MaxTrans, j \in 0..1 }

\* f"{gene}\t{trans}\n"
IsoLine(gene, trans) == gene \o <<TAB>> \o trans \o <<LF>>

\* `not isoforms_arg`: None and the empty string
IsFalsy(arg) == arg \in {ArgNone, ""}

\* lines 157-168: the call; without an argument nothing is checked
IsoCall ==
    /\ pc = "idle"
    /\ \E arg \in {ArgNone, "", "isoforms.tsv"}, in \in IsoInputs :
        /\ IsFalsy(arg) =>
             in = [t_in_bed |-> {}, isoform_to_gene |-> <<>>,
                   header |-> << <<71>>, <<84>> >>, temp_wd |-> "wd1"]
        /\ isoforms_arg' = arg
        /\ t_in_bed' = in.t_in_bed
        /\ temp_wd' = in.temp_wd
        /\ IF IsFalsy(arg)
           THEN /\ pc' = "done"
                /\ result' = Returned(NoValue)
                /\ isoform_to_gene' = <<>>
                /\ header' = <<>>
           ELSE /\ pc' = "iso_check"
                /\ result' = result
                /\ isoform_to_gene' = in.isoform_to_gene
                /\ header' = in.header
    /\ op' = "check_isoforms_file"
    /\ todo' = {}
    /\ UNCHANGED <<open_handles, fs, u12_vars, twobit_vars, chain_lines>>

skip_header_Never(hdr, tset) == FALSE
\* header_maybe_trans in t_in_bed
skip_header(hdr, tset) == hdr[2] \in tset

t_in_both_All(tset, t_in_i) == t_in_i
\* t_in_bed.intersection(t_in_i)
t_in_both(tset, t_in_i) == tset \cap t_in_i

u_in_b_Reversed(tset, t_in_i) == t_in_i \ tset
\* t_in_bed.difference(t_in_i)
u_in_b(tset, t_in_i) == tset \ t_in_i

\* lines 170-198: a transcript of the bed file missing from the isoforms
\* file raises; otherwise isoforms.tsv is opened and the header written
\* unless skipped
IsoCheck ==
    /\ pc = "iso_check"
    /\ LET t_in_i == DOMAIN isoform_to_gene
           missing == u_in_b(t_in_bed, t_in_i)
           isoforms_file == PathJoin(temp_wd, "isoforms.tsv")
       IN  IF Cardinality(missing) # 0
           THEN /\ \E extra_t_list \in FirstN(missing, TRANSCRIPTS_TOP) :
                     result' = Raised(ValueError(
                         "transcripts in the bed file absent in the isoforms file",
                         0, <<Cardinality(missing)>>, extra_t_list))
                /\ pc' = "done"
                /\ UNCHANGED <<open_handles, fs, todo>>
           ELSE /\ open_handles' = open_handles \cup {isoforms_file}
                /\ fs' = WriteFile(fs, isoforms_file,
                                   IF skip_header(header, t_in_bed) THEN <<>>
                                   ELSE IsoLine(header[1], header[2]))
                /\ todo' = t_in_both(t_in_bed, t_in_i)
                /\ pc' = "iso_loop"
                /\ result' = result
    /\ UNCHANGED <<op, temp_wd, t_in_bed, isoforms_arg, isoform_to_gene, header,
                   u12_vars, twobit_vars, chain_lines>>

\* lines 199-201: one transcript of t_in_both, in the set's iteration order
IsoWrite ==
    /\ pc = "iso_loop"
    /\ \E trans \in todo :
        LET gene == isoform_to_gene[trans]
            isoforms_file == PathJoin(temp_wd, "isoforms.tsv")
        IN  /\ fs' = WriteFile(fs, isoforms_file,
                               fs[isoforms_file] \o IsoLine(gene, trans))
            /\ todo' = todo \ {trans}
    /\ UNCHANGED <<op, pc, open_handles, result, temp_wd, t_in_bed, isoforms_arg,
                   isoform_to_gene, header, u12_vars, twobit_vars, chain_lines>>

\* lines 203-204: f.close() and the path returned
IsoClose ==
    /\ pc = "iso_loop"
    /\ todo = {}
    /\ open_handles' = open_handles \ {PathJoin(temp_wd, "isoforms.tsv")}
    /\ result' = Returned(PathJoin(temp_wd, "isoforms.tsv"))
    /\ pc' = "done"
    /\ UNCHANGED <<op, fs, temp_wd, t_in_bed, iso_vars, u12_vars, twobit_vars,
                   chain_lines>>

\* ------------------------------------------- check_2bit_file_completeness
\* chromosome names "1", "2", "X" and the numbered family; lengths 10, 20
ChromNames == {<<49>>, <<50>>, <<88>>}
ChromLengths == {10, 20}
TwoBitIndexes == UNION {[K -> ChromLengths] : K \in SUBSET ChromNames}
ChromSizeMaps == UNION {[K -> ChromLengths \cup {None}] : K \in SUBSET ChromNames}

\* the inputs of one call: [two_bit, chroms_sizes]
TwoBitInputs ==
    { [two_bit |-> [readable |-> TRUE, sizes |-> idx], chroms_sizes |-> cs] :
        idx \in TwoBitIndexes, cs \in ChromSizeMaps }
    \cup
    { [two_bit |-> [readable |-> FALSE, sizes |-> <<>>], chroms_sizes |-> cs] :
        cs \in {<<>>, [k \in {<<49>>} |-> None]} }
    \cup
    { [two_bit |-> [readable |-> TRUE, sizes |-> [k \in Numbered(j) |-> 10]],
       chroms_sizes |-> [k \in Numbered(n) |-> len]] :
        n \in (CHROMS_TOP - 1)..MaxChrom, j \in 0..1, len \in {None, 20} }

\* line 64: the call
TwoBitCall ==
    /\ pc = "idle"
    /\ \E in \in TwoBitInputs :
        /\ two_bit' = in.two_bit
        /\ chroms_sizes' = in.chroms_sizes
    /\ op' = "check_2bit_file_completeness"
    /\ pc' = "2bit_read"
    /\ UNCHANGED <<open_handles, result, fs, temp_wd, t_in_bed, u12_vars, iso_vars,
                   chain_lines>>

\* lines 66-73: TwoBitFile(...).sequence_sizes(); EOFError becomes ValueError
TwoBitRead ==
    /\ pc = "2bit_read"
    /\ IF two_bit.readable
       THEN pc' = "2bit_check" /\ result' = result
       ELSE /\ pc' = "done"
            /\ result' = Raised(ValueError("2bit file cannot be read", 0, <<>>, {}))
    /\ UNCHANGED <<op, open_handles, fs, temp_wd, t_in_bed, u12_vars, iso_vars,
                   twobit_vars, chain_lines>>

size_mismatches_None(twobit_seq_to_size, sizes) ==
    { chrom \in DOMAIN twobit_seq_to_size \cap DOMAIN sizes :
        twobit_seq_to_size[chrom] # sizes[chrom] }

size_mismatches_Off(twobit_seq_to_size, sizes) == {}

\* the chromosomes of `intersection` at which the loop of lines 89-105 raises
size_mismatches(twobit_seq_to_size, sizes) ==
    { chrom \in DOMAIN twobit_seq_to_size \cap DOMAIN sizes :
        sizes[chrom] # None /\ twobit_seq_to_size[chrom] # sizes[chrom] }

\* lines 75-105: chromosomes missing from the 2bit file raise; then the
\* first chromosome (in the set's iteration order) whose sizes differ raises
TwoBitCheck ==
    /\ pc = "2bit_check"
    /\ LET twobit_seq_to_size == two_bit.sizes
           twobit_sequences == DOMAIN twobit_seq_to_size
           check_chroms == DOMAIN chroms_sizes
           chroms_not_in_2bit == check_chroms \ twobit_sequences
       IN  IF Cardinality(chroms_not_in_2bit) > 0
           THEN \E missing_top_100 \in FirstN(chroms_not_in_2bit, CHROMS_TOP) :
                    result' = Raised(ValueError(
                        "chromosomes of the chain/bed file not found in the 2bit file",
                        0, <<>>, missing_top_100))
           ELSE IF size_mismatches(twobit_seq_to_size, chroms_sizes) # {}
           THEN \E chrom \in size_mismatches(twobit_seq_to_size, chroms_sizes) :
                    result' = Raised(ValueError(
                        "Sizes don't match", 0,
                        chrom \o <<twobit_seq_to_size[chrom], chroms_sizes[chrom]>>,
                        {}))
           ELSE result' = Returned(NoValue)
    /\ pc' = "done"
    /\ UNCHANGED <<op, open_handles, fs, temp_wd, t_in_bed, u12_vars, iso_vars,
                   twobit_vars, chain_lines>>

\* ------------------------------------------------ check_chains_classified
\* line 213, 209-210: the call; the file is opened in a with statement
ChainsCall ==
    /\ pc = "idle"
    /\ \E n \in 0..MaxChainLines : chain_lines' = n
    /\ op' = "check_chains_classified"
    /\ pc' = "chains_with"
    /\ open_handles' = open_handles \cup {<<"chain_results_df">>}
    /\ UNCHANGED <<result, fs, temp_wd, t_in_bed, u12_vars, iso_vars, twobit_vars>>

\* sum(1 for _ in islice(f, 2)) > 1
has_more_than_one_line(n) ==
    (IF n < ISLICE_STOP THEN n ELSE ISLICE_STOP) > 1

\* lines 211-217: at most two lines are counted, the with block closes the
\* file, and a file of one line or none raises
ChainsCheck ==
    /\ pc = "chains_with"
    /\ open_handles' = open_handles \ {<<"chain_results_df">>}
    /\ result' = IF has_more_than_one_line(chain_lines)
                 THEN Returned(NoValue)
                 ELSE Raised(ValueError("Chain results file is empty", 0, <<>>, {}))
    /\ pc' = "done"
    /\ UNCHANGED <<op, fs, temp_wd, t_in_bed, u12_vars, iso_vars, twobit_vars,
                   chain_lines>>

\* ------------------------------------------------------- the specification
Next ==
    \/ U12Call
    \/ U12Loop
    \/ U12Close
    \/ U12Write
    \/ U12Return
    \/ IsoCall
    \/ IsoCheck
    \/ IsoWrite
    \/ IsoClose
    \/ TwoBitCall
    \/ TwoBitRead
    \/ TwoBitCheck
    \/ ChainsCall
    \/ ChainsCheck

Spec == Init /\ [][Next]_vars

\* ------------------------------------------- the notions of the claims
\* the operation o has returned or raised
Done(o) == pc = "done" /\ op = o

\* the lines of a file as stored, each with its terminator
StoredLines(raw) == splitlines(raw)

\* a stored line without its terminator ("\n" or "\r\n")
LineContent(line) ==
    LET n == Len(line)
    IN  IF n >= 2 /\ line[n - 1] = 13 /\ line[n] = 10 THEN SubSeq(line, 1, n - 2)
        ELSE IF n >= 1 /\ line[n] = 10 THEN SubSeq(line, 1, n - 1)
        ELSE line

\* its tab-separated fields
LineFields(line) == split(LineContent(line), 9)

\* a string of decimal digits
IsDigits(s) == Len(s) > 0 /\ \A i \in 1..Len(s) : s[i] \in 48..57

\* a well-formed U12 record: exactly 3 tab-separated fields, field 2
\* numeric, field 3 "A" or "D"
WellFormed(line) ==
    /\ Len(LineFields(line)) = 3
    /\ IsDigits(LineFields(line)[2])
    /\ LineFields(line)[3] \in {<<65>>, <<68>>}

\* a line the code rejects: stripped of trailing whitespace it has not 3
\* fields, or its transcript is in the set and field 2 or 3 is invalid
Rejected(line, tset) ==
    LET d == split(rstrip(line), 9)
    IN  \/ Len(d) # 3
        \/ /\ d[1] \in tset
           /\ ~isnumeric(d[2]) \/ d[3] \notin {<<65>>, <<68>>}

\* the three format errors of a U12 line
IsU12FormatError(e) ==
    e.text \in {"U12 line corrupted, 3 fields expected",
                "U12 line corrupted, field 2 must be numeric",
                "U12 line corrupted, field 3 must be A or D"}

U12Ran == Done("check_and_write_u12_file") /\ u12_arg # ArgNone
U12Path == <<temp_wd, "u12_data.txt">>
U12In == StoredLines(u12_file)

\* the kept lines as the claim states them (verbatim), and as written
\* (each terminator as "\n")
InSet(line) == LineFields(line)[1] \in t_in_bed
AsRead(line) ==
    IF line # <<>> /\ line[Len(line)] = 10 THEN LineContent(line) \o <<10>> ELSE line
MapAsRead(ls) == [i \in 1..Len(ls) |-> AsRead(ls[i])]

\* ------------------------------------------------------------------ claims
\* C1 as stated: a U12 file with a line that is not a well-formed record
\* makes check_and_write_u12_file fail with a format error naming the number
\* of such a line, whatever the transcript identifier set contains.
C1_AsStated ==
    (U12Ran /\ \E i \in 1..Len(U12In) : ~WellFormed(U12In[i]))
    => /\ result.status = "raised"
       /\ IsU12FormatError(result.err)
       /\ result.err.line \in {i \in 1..Len(U12In) : ~WellFormed(U12In[i])}

\* C1 amended: a U12 file with a line that, stripped of trailing whitespace,
\* has not exactly 3 fields, or whose transcript is in the set while field 2
\* is not numeric or field 3 is not "A" or "D", makes the operation fail with
\* a format error naming the 1-based number of the first such line.
C1_FirstRejectedLine ==
    (U12Ran /\ \E i \in 1..Len(U12In) : Rejected(U12In[i], t_in_bed))
    => /\ result.status = "raised"
       /\ IsU12FormatError(result.err)
       /\ result.err.line \in 1..Len(U12In)
       /\ Rejected(U12In[result.err.line], t_in_bed)
       /\ \A j \in 1..(result.err.line - 1) : ~Rejected(U12In[j], t_in_bed)

\* a malformed line of a transcript outside the set was dropped, and the
\* line after it was rejected
C1_Witness ==
    /\ U12Ran
    /\ Len(U12In) = 2
    /\ ~WellFormed(U12In[1]) /\ ~Rejected(U12In[1], t_in_bed)
    /\ Rejected(U12In[2], t_in_bed)
    /\ result.status = "raised" /\ result.err.line = 2

\* C7 as stated: when every line is well-formed and some line's transcript
\* is in the set, the operation returns the path of u12_data.txt in the
\* working directory and the file holds the stored lines whose transcript is
\* in the set, verbatim and in order.
C7_AsStated ==
    (/\ U12Ran
     /\ \A i \in 1..Len(U12In) : WellFormed(U12In[i])
     /\ \E i \in 1..Len(U12In) : InSet(U12In[i]))
    => /\ result = Returned(U12Path)
       /\ U12Path \in DOMAIN fs
       /\ fs[U12Path] = Concat(SelectSeq(U12In, InSet))

\* C7 amended: ... the file holds the lines whose transcript is in the set,
\* in order, each with its content verbatim and its terminator as read in
\* text mode: "\n" for "\n" and for "\r\n", none where the last line has none.
C7_KeptLinesAsRead ==
    (/\ U12Ran
     /\ \A i \in 1..Len(U12In) : WellFormed(U12In[i])
     /\ \E i \in 1..Len(U12In) : InSet(U12In[i]))
    => /\ result = Returned(U12Path)
       /\ U12Path \in DOMAIN fs
       /\ fs[U12Path] = Concat(MapAsRead(SelectSeq(U12In, InSet)))

\* two well-formed lines, one dropped and one kept, and the file returned
C7_Witness ==
    /\ U12Ran
    /\ Len(U12In) = 2
    /\ \A i \in 1..Len(U12In) : WellFormed(U12In[i])
    /\ InSet(U12In[2]) /\ ~InSet(U12In[1])
    /\ result = Returned(U12Path)

\* C9: when every line is well-formed and no line's transcript is in the
\* set, the operation fails with the completeness error and writes no
\* u12_data.txt; and a u12_data.txt it has written is never empty.
C9_EmptyAfterFilterFails ==
    /\ (/\ U12Ran
        /\ \A i \in 1..Len(U12In) : WellFormed(U12In[i])
        /\ \A i \in 1..Len(U12In) : ~InSet(U12In[i]))
       => /\ result.status = "raised"
          /\ result.err.text = "No lines left in the U12 file after filter"
          /\ U12Path \notin DOMAIN fs
    /\ (op = "check_and_write_u12_file" /\ U12Path \in DOMAIN fs)
       => fs[U12Path] # <<>>

\* two well-formed lines, both filtered out
C9_Witness ==
    /\ U12Ran
    /\ Len(U12In) = 2
    /\ \A i \in 1..Len(U12In) : WellFormed(U12In[i]) /\ ~InSet(U12In[i])
    /\ result.status = "raised"

\* C3 as stated: check_and_write_u12_file, check_isoforms_file and
\* check_chains_classified have closed every file they opened when they
\* return and when they raise.
C3_AsStated ==
    (pc = "done" /\ op \in {"check_and_write_u12_file", "check_isoforms_file",
                            "check_chains_classified"})
    => open_handles = {}

\* ---- check_isoforms_file
IsoRan == Done("check_isoforms_file") /\ isoforms_arg \notin {ArgNone, ""}
IsoPath == <<temp_wd, "isoforms.tsv">>
IsoMissing == t_in_bed \ DOMAIN isoform_to_gene
\* the lines of the emitted isoforms.tsv
IsoOut == StoredLines(fs[IsoPath])
\* a gene-TAB-transcript line
TabLine(gene, trans) == gene \o <<9>> \o trans \o <<10>>
HeaderWritten == header[2] \notin t_in_bed

\* C2 as stated: the second field of every line of the emitted isoforms.tsv,
\* whatever line it is, is in t_in_bed.
C2_AsStated ==
    (IsoRan /\ result.status = "returned")
    => \A i \in 1..Len(IsoOut) : LineFields(IsoOut[i])[2] \in t_in_bed

\* C2 amended: the second field of every line of the emitted isoforms.tsv
\* other than the header line is in t_in_bed; the header line is the first
\* line, present exactly when the header's second field is not in t_in_bed.
C2_DataLinesInSet ==
    (IsoRan /\ result.status = "returned")
    => /\ \A i \in 1..Len(IsoOut) :
            (i = 1 /\ HeaderWritten) \/ LineFields(IsoOut[i])[2] \in t_in_bed
       /\ HeaderWritten =>
            /\ Len(IsoOut) >= 1
            /\ LineFields(IsoOut[1])[2] = header[2]

\* the header and two data lines written, a mapping entry outside the set
\* dropped
C2_Witness ==
    /\ IsoRan /\ result.status = "returned"
    /\ HeaderWritten
    /\ Len(IsoOut) = 3
    /\ DOMAIN isoform_to_gene \ t_in_bed # {}

\* C8: when a transcript of the set is missing from the mapping the
\* operation fails with the completeness error, whose count is the number of
\* transcripts of the set missing from the mapping and which lists 100 of
\* them (all when they are fewer), and no isoforms.tsv is written; when none
\* is missing the operation succeeds whatever else the mapping holds.
C8_MissingTranscriptsFail ==
    IsoRan
    => IF IsoMissing # {}
       THEN /\ result.status = "raised"
            /\ result.err.text =
                 "transcripts in the bed file absent in the isoforms file"
            /\ result.err.value = <<Cardinality(IsoMissing)>>
            /\ result.err.items \subseteq IsoMissing
            /\ Cardinality(result.err.items) =
                 (IF Cardinality(IsoMissing) < 100 THEN Cardinality(IsoMissing)
                  ELSE 100)
            /\ IsoPath \notin DOMAIN fs
       ELSE result = Returned(IsoPath)

\* more than 100 transcripts are missing
C8_Witness ==
    /\ IsoRan
    /\ Cardinality(IsoMissing) > 100
    /\ result.status = "raised"

\* C10: when no transcript of the set is missing, isoforms.tsv is the header
\* line (the two header fields), first, exactly when the header's second
\* field is not in the set, followed by one gene-TAB-transcript line for each
\* transcript of the set (with its gene) and no other line; with the header
\* skipped it has as many lines as the set has members.
C10_HeaderThenOneLineEach ==
    (IsoRan /\ IsoMissing = {})
    => /\ result = Returned(IsoPath)
       /\ IsoPath \in DOMAIN fs
       /\ LET data == IF HeaderWritten THEN Tail(IsoOut) ELSE IsoOut
              both == t_in_bed \cap DOMAIN isoform_to_gene
          IN  /\ HeaderWritten =>
                   /\ Len(IsoOut) >= 1
                   /\ IsoOut[1] = TabLine(header[1], header[2])
              /\ {data[i] : i \in 1..Len(data)} =
                   {TabLine(isoform_to_gene[t], t) : t \in both}
              /\ Len(data) = Cardinality(both)
              /\ ~HeaderWritten => Len(IsoOut) = Cardinality(t_in_bed)

\* the header is a data row of the set: skipped, and two lines written while
\* the mapping holds a third transcript
C10_Witness ==
    /\ IsoRan /\ result.status = "returned"
    /\ ~HeaderWritten
    /\ Cardinality(t_in_bed) = 2
    /\ Cardinality(DOMAIN isoform_to_gene) = 3

\* ---- check_2bit_file_completeness
TwoBitRan == Done("check_2bit_file_completeness") /\ two_bit.readable
ChromsMissing == DOMAIN chroms_sizes \ DOMAIN two_bit.sizes
\* present in both, length known and different
ChromsDiffering ==
    { c \in DOMAIN chroms_sizes \cap DOMAIN two_bit.sizes :
        chroms_sizes[c] # -1 /\ chroms_sizes[c] # two_bit.sizes[c] }
MissingText == "chromosomes of the chain/bed file not found in the 2bit file"

\* C4 as stated: for every chromosome of the size map absent from the index
\* the checker fails with the completeness error and the message lists that
\* chromosome, for any number of missing chromosomes.
C4_AsStated ==
    TwoBitRan
    => \A c \in ChromsMissing :
          /\ result.status = "raised"
          /\ result.err.text = MissingText
          /\ c \in result.err.items

\* C4 amended: when chromosomes of the size map are absent from the index
\* the checker fails with the completeness error, whose message lists 100 of
\* the missing chromosomes, and all of them when they are at most 100.
C4_MissingChromsListed ==
    (TwoBitRan /\ ChromsMissing # {})
    => /\ result.status = "raised"
       /\ result.err.text = MissingText
       /\ result.err.items \subseteq ChromsMissing
       /\ Cardinality(result.err.items) =
            (IF Cardinality(ChromsMissing) < 100 THEN Cardinality(ChromsMissing)
             ELSE 100)

\* more than 100 chromosomes are missing
C4_Witness ==
    /\ TwoBitRan
    /\ Cardinality(ChromsMissing) > 100
    /\ result.status = "raised"

\* C5 as stated: for a chromosome present in both with a known size-map
\* length that differs from the index length the checker fails with the
\* length-mismatch error citing that chromosome and both lengths, regardless
\* of what else the size map contains.
C5_AsStated ==
    TwoBitRan
    => \A c \in ChromsDiffering :
          /\ result.status = "raised"
          /\ result.err.text = "Sizes don't match"
          /\ result.err.value = c \o <<two_bit.sizes[c], chroms_sizes[c]>>

\* C5 amended: when some chromosome present in both has a known size-map
\* length that differs from the index length the checker fails: with the
\* missing-chromosome error if a chromosome of the size map is absent from
\* the index, otherwise with the length-mismatch error citing one such
\* chromosome and its two lengths.
C5_MismatchFails ==
    (TwoBitRan /\ ChromsDiffering # {})
    => /\ result.status = "raised"
       /\ IF ChromsMissing # {}
          THEN result.err.text = MissingText
          ELSE /\ result.err.text = "Sizes don't match"
               /\ \E c \in ChromsDiffering :
                     result.err.value = c \o <<two_bit.sizes[c], chroms_sizes[c]>>

\* two chromosomes differ, a third has no known length, and the mismatch
\* error is raised
C5_Witness ==
    /\ TwoBitRan
    /\ Cardinality(ChromsDiffering) = 2
    /\ \E c \in DOMAIN chroms_sizes : chroms_sizes[c] = -1
    /\ result.status = "raised"
    /\ result.err.text = "Sizes don't match"

\* C6: with a readable index, a size map whose keys are all in the index and
\* whose known lengths equal the index's makes the checker return without
\* raising; an entry of unknown length is exempt from the comparison, but
\* when it is absent from the index the checker fails with the
\* missing-chromosome error.
C6_ConsistentMapSucceeds ==
    TwoBitRan
    => /\ (/\ DOMAIN chroms_sizes \subseteq DOMAIN two_bit.sizes
           /\ \A c \in DOMAIN chroms_sizes :
                 chroms_sizes[c] = -1 \/ chroms_sizes[c] = two_bit.sizes[c])
          => result = Returned(NoValue)
       /\ (\E c \in ChromsMissing : chroms_sizes[c] = -1)
          => /\ result.status = "raised"
             /\ result.err.text = MissingText

\* a known length that agrees, an unknown length, and a sequence of the
\* index the size map does not name
C6_Witness ==
    /\ TwoBitRan
    /\ result = Returned(NoValue)
    /\ \E c \in DOMAIN chroms_sizes : chroms_sizes[c] = -1
    /\ \E c \in DOMAIN chroms_sizes : chroms_sizes[c] = two_bit.sizes[c]
    /\ DOMAIN two_bit.sizes \ DOMAIN chroms_sizes # {}

====
